---- MODULE Spec2Model ----
(***************************************************************************)
(* Model of the two Google-auth command line utilities:                    *)
(*   setup-google-auth.ts     copies .env.template to .env when .env is    *)
(*                            absent;                                      *)
(*   validate-google-auth.ts  checks three environment variables, the      *)
(*                            shape of the callback URL and the content of *)
(*                            medusa-config.ts, and exits 0 or 1.          *)
(*                                                                         *)
(* A JavaScript string is a sequence of one-character strings, so that     *)
(* String.prototype.includes, === and URL parsing are computed and not     *)
(* assumed.                                                                *)
(***************************************************************************)
EXTENDS Integers, Sequences, FiniteSets, TLC

VARIABLES
    env,            \* process.env after dotenv's config(): name -> [defined, value]
    cfgFile,        \* medusa-config.ts on disk: [kind, content]
    pc,             \* position of the validation tool's main()
    envResults,     \* const envResults
    callbackResult, \* const callbackResult
    configResult,   \* const configResult
    cfgAtCheck,     \* history: medusa-config.ts as existsSync saw it
    cfgAtRead,      \* history: medusa-config.ts as readFileSync saw it
    stdout,         \* lines the validation tool has printed
    exitCode,       \* argument of process.exit, -1 while running
    returned,       \* values returned by successive calls of one check function
    envFile,        \* .env on disk: [exists, content]
    tmplFile,       \* .env.template on disk: [kind, content]
    disk,           \* whether the working directory accepts writes
    inst,           \* the setup tool's processes: id -> [pc, templateContent, offset, exit, log]
    runs,           \* number of setup runs started so far
    envAtStart,     \* history: .env when the current setup run started
    tmplAtStart,    \* history: .env.template when the current setup run started
    prevExit        \* history: .env and the log the previous setup run left

valVars == <<env, cfgFile, pc, envResults, callbackResult, configResult,
             cfgAtCheck, cfgAtRead, stdout, exitCode, returned>>
setupVars == <<envFile, tmplFile, disk, inst, runs, envAtStart, tmplAtStart, prevExit>>
vars == <<env, cfgFile, pc, envResults, callbackResult, configResult,
          cfgAtCheck, cfgAtRead, stdout, exitCode, returned,
          envFile, tmplFile, disk, inst, runs, envAtStart, tmplAtStart, prevExit>>

----------------------------------------------------------------------------
(* Bounds of the model *)

MaxCalls == 2       \* calls of one check function in one process
MaxIdParts == 2     \* fragments in a credential value
MaxUrlParts == 4    \* fragments in a callback URL
MaxCfgParts == 2    \* fragments in medusa-config.ts
MaxFileLen == 2     \* bytes in .env.template
MaxRuns == 2        \* successive runs of the setup tool

----------------------------------------------------------------------------
(* Strings *)

\* String.prototype.includes(sub)
Includes(s, sub) ==
    \E i \in 0..(Len(s) - Len(sub)) : SubSeq(s, i + 1, i + Len(sub)) = sub

\* String.prototype.endsWith(sub)
EndsWith(s, sub) ==
    /\ Len(sub) <= Len(s)
    /\ SubSeq(s, Len(s) - Len(sub) + 1, Len(s)) = sub

\* Index of the first element of s that is in set cs, 0 when there is none.
FirstOf(s, cs) ==
    IF \E i \in 1..Len(s) : s[i] \in cs
    THEN CHOOSE i \in 1..Len(s) : s[i] \in cs /\ \A j \in 1..(i - 1) : s[j] \notin cs
    ELSE 0

RECURSIVE Flatten(_)
Flatten(parts) ==
    IF parts = <<>> THEN <<>> ELSE Head(parts) \o Flatten(Tail(parts))

RECURSIVE SeqsUpTo(_, _)
SeqsUpTo(S, n) ==
    IF n = 0 THEN {<<>>}
    ELSE LET shorter == SeqsUpTo(S, n - 1)
         IN  shorter \cup {Append(q, x) : q \in shorter, x \in S}

\* Every concatenation of at most n fragments.
Strings(frags, n) == {Flatten(q) : q \in SeqsUpTo(frags, n)}

PLACEHOLDER_YOUR == <<"y","o","u","r","_">>
PLACEHOLDER_HERE == <<"_","h","e","r","e">>
PLACEHOLDER_CLIENT_ID ==
    <<"y","o","u","r","_","g","o","o","g","l","e","_","c","l","i","e","n","t","_","i","d">>
PLACEHOLDER_CLIENT_SECRET ==
    <<"y","o","u","r","_","g","o","o","g","l","e","_","c","l","i","e","n","t","_","s","e","c","r","e","t">>
CALLBACK_PATH == <<"/","a","u","t","h","/","c","a","l","l","b","a","c","k">>
AUTH_GOOGLE_MODULE ==
    <<"@","m","e","d","u","s","a","j","s","/","m","e","d","u","s","a","/","a","u","t","h","-","g","o","o","g","l","e">>

requiredVars == <<"GOOGLE_CLIENT_ID", "GOOGLE_CLIENT_SECRET", "GOOGLE_CALLBACK_URL">>
VarNames == {requiredVars[i] : i \in 1..Len(requiredVars)}

Unset == [defined |-> FALSE, value |-> <<>>]
SetTo(s) == [defined |-> TRUE, value |-> s]

\* JavaScript's !value for a value that is undefined or a string.
Falsy(v) == ~v.defined \/ v.value = <<>>

\* interface ValidationResult; a message is its fixed text (kind), the variable
\* it names and the value it interpolates.
Result(ok, kind, var, arg) ==
    [success |-> ok, message |-> [kind |-> kind, var |-> var, arg |-> arg]]

----------------------------------------------------------------------------
(* new URL(input): the WHATWG basic URL parser, without a base URL, on     *)
(* inputs made of ASCII letters, digits and - . _ : / ? #  (no credentials,*)
(* no backslash, no percent sign, no file: scheme, no digit in a host).    *)

LowerAlpha == <<"a","b","c","d","e","f","g","h","i","j","k","l","m","n","o","p","q","r","s","t","u","v","w","x","y","z">>
UpperAlpha == <<"A","B","C","D","E","F","G","H","I","J","K","L","M","N","O","P","Q","R","S","T","U","V","W","X","Y","Z">>
Digits == <<"0","1","2","3","4","5","6","7","8","9">>

IsAlpha(c) == \E i \in 1..Len(LowerAlpha) : c = LowerAlpha[i] \/ c = UpperAlpha[i]
IsDigit(c) == \E i \in 1..Len(Digits) : c = Digits[i]
DigitValue(c) == (CHOOSE i \in 1..Len(Digits) : c = Digits[i]) - 1
ToLower(c) ==
    IF \E i \in 1..Len(UpperAlpha) : c = UpperAlpha[i]
    THEN LowerAlpha[CHOOSE i \in 1..Len(UpperAlpha) : c = UpperAlpha[i]]
    ELSE c
LowerCase(s) == [i \in 1..Len(s) |-> ToLower(s[i])]

IsSchemeChar(c) == IsAlpha(c) \/ IsDigit(c) \/ c \in {"+", "-", "."}
IsHostChar(c) == IsAlpha(c) \/ IsDigit(c) \/ c \in {"-", ".", "_"}

SpecialSchemes ==
    { <<"h","t","t","p">>, <<"h","t","t","p","s">>, <<"w","s">>, <<"w","s","s">>,
      <<"f","t","p">> }

ParseFailure == [ok |-> FALSE, pathname |-> <<>>]
Parsed(path) == [ok |-> TRUE, pathname |-> path]

RECURSIVE StripSlashes(_)
StripSlashes(s) ==
    IF s # <<>> /\ Head(s) = "/" THEN StripSlashes(Tail(s)) ELSE s

RECURSIVE Decimal(_)
Decimal(s) ==
    IF s = <<>> THEN 0
    ELSE 10 * Decimal(SubSeq(s, 1, Len(s) - 1)) + DigitValue(s[Len(s)])

\* Segments of a path that starts with "/": the text between the slashes.
RECURSIVE SplitPath(_)
SplitPath(p) ==
    LET rest == Tail(p)
        nxt == FirstOf(rest, {"/"})
    IN  IF nxt = 0 THEN <<rest>>
        ELSE <<SubSeq(rest, 1, nxt - 1)>> \o SplitPath(SubSeq(rest, nxt, Len(rest)))

DropLast(q) == IF q = <<>> THEN q ELSE SubSeq(q, 1, Len(q) - 1)

\* Path state: single-dot segments are dropped, double-dot segments shorten
\* the path; a dot segment in last position leaves an empty segment.
RECURSIVE FoldSegments(_, _)
FoldSegments(segs, acc) ==
    IF segs = <<>> THEN acc
    ELSE LET seg == Head(segs)
             last == Len(segs) = 1
         IN  IF seg = <<".", ".">>
             THEN FoldSegments(Tail(segs),
                               IF last THEN Append(DropLast(acc), <<>>) ELSE DropLast(acc))
             ELSE IF seg = <<".">>
             THEN FoldSegments(Tail(segs), IF last THEN Append(acc, <<>>) ELSE acc)
             ELSE FoldSegments(Tail(segs), Append(acc, seg))

RECURSIVE JoinPath(_)
JoinPath(segs) ==
    IF segs = <<>> THEN <<>> ELSE <<"/">> \o Head(segs) \o JoinPath(Tail(segs))

\* url.pathname of a hierarchical URL whose remaining input is s.
PathName(s, special) ==
    LET stop == FirstOf(s, {"?", "#"})
        p == IF stop = 0 THEN s ELSE SubSeq(s, 1, stop - 1)
    IN  IF p = <<>>
        THEN IF special THEN <<"/">> ELSE <<>>
        ELSE JoinPath(FoldSegments(SplitPath(p), <<>>))

\* Authority, host and port states, then the path.
ParseAuthority(s, special) ==
    LET stop == FirstOf(s, {"/", "?", "#"})
        auth == IF stop = 0 THEN s ELSE SubSeq(s, 1, stop - 1)
        rest == IF stop = 0 THEN <<>> ELSE SubSeq(s, stop, Len(s))
        colon == FirstOf(auth, {":"})
        host == IF colon = 0 THEN auth ELSE SubSeq(auth, 1, colon - 1)
        port == IF colon = 0 THEN <<>> ELSE SubSeq(auth, colon + 1, Len(auth))
    IN  IF \/ host = <<>> /\ (special \/ colon # 0)
           \/ \E i \in 1..Len(host) : ~IsHostChar(host[i])
           \/ \E i \in 1..Len(port) : ~IsDigit(port[i])
           \/ Decimal(port) > 65535
        THEN ParseFailure
        ELSE Parsed(PathName(rest, special))

parseURL(input) ==
    LET colon == FirstOf(input, {":"})
        scheme == LowerCase(SubSeq(input, 1, colon - 1))
        rest == SubSeq(input, colon + 1, Len(input))
    IN  IF \/ colon <= 1
           \/ ~IsAlpha(input[1])
           \/ \E i \in 2..(colon - 1) : ~IsSchemeChar(input[i])
        THEN ParseFailure
        ELSE IF scheme \in SpecialSchemes
        THEN ParseAuthority(StripSlashes(rest), TRUE)
        ELSE IF rest # <<>> /\ Head(rest) = "/"
        THEN IF Len(rest) >= 2 /\ rest[2] = "/"
             THEN ParseAuthority(SubSeq(rest, 3, Len(rest)), FALSE)
             ELSE Parsed(PathName(rest, FALSE))
        ELSE LET stop == FirstOf(rest, {"?", "#"})
             IN  Parsed(IF stop = 0 THEN rest ELSE SubSeq(rest, 1, stop - 1))

----------------------------------------------------------------------------
(* validate-google-auth.ts: the three check functions *)

IsPlaceholderNoHere(value) ==
    \/ Includes(value, PLACEHOLDER_YOUR)
    \/ value = PLACEHOLDER_CLIENT_ID
    \/ value = PLACEHOLDER_CLIENT_SECRET

\* The else-if condition of the loop body.
IsPlaceholder(value) ==
    \/ Includes(value, PLACEHOLDER_YOUR)
    \/ Includes(value, PLACEHOLDER_HERE)
    \/ value = PLACEHOLDER_CLIENT_ID
    \/ value = PLACEHOLDER_CLIENT_SECRET

\* One iteration of the loop over requiredVars: the result pushed for varName.
CheckVar(varName, value) ==
    IF Falsy(value)
    THEN Result(FALSE, "Missing required environment variable", varName, <<>>)
    ELSE IF IsPlaceholder(value.value)
    THEN Result(FALSE, "contains placeholder value", varName, <<>>)
    ELSE Result(TRUE, "is configured", varName, <<>>)

RECURSIVE EnvLoop(_, _, _)
EnvLoop(e, i, results) ==
    IF i > Len(requiredVars) THEN results
    ELSE EnvLoop(e, i + 1, Append(results, CheckVar(requiredVars[i], e[requiredVars[i]])))

validateEnvironmentVariables(e) == EnvLoop(e, 1, <<>>)

PathAcceptedExact(pathname) == pathname = CALLBACK_PATH

\* The condition under which the path is accepted (negation of the if).
PathAccepted(pathname) == Includes(pathname, CALLBACK_PATH)

validateCallbackUrl(e) ==
    LET callbackUrl == e["GOOGLE_CALLBACK_URL"]
        url == parseURL(callbackUrl.value)
    IN  IF Falsy(callbackUrl)
        THEN Result(FALSE, "is not set", "GOOGLE_CALLBACK_URL", <<>>)
        ELSE IF ~url.ok
        THEN Result(FALSE, "is not a valid URL", "GOOGLE_CALLBACK_URL", callbackUrl.value)
        ELSE IF ~PathAccepted(url.pathname)
        THEN Result(FALSE, "should end with '/auth/callback', got", "GOOGLE_CALLBACK_URL",
                    url.pathname)
        ELSE Result(TRUE, "is properly formatted", "GOOGLE_CALLBACK_URL", callbackUrl.value)

NoResult == Result(FALSE, "none", "", <<>>)

ENOENT == <<"E","N","O","E","N","T">>
EACCES == <<"E","A","C","C","E","S">>

AbsentFile == [kind |-> "absent", content |-> <<>>]
UnreadableFile == [kind |-> "unreadable", content |-> <<>>]
NotYetSeen == [kind |-> "unseen", content |-> <<>>]
RegularFile(text) == [kind |-> "file", content |-> text]

\* error.message of what fs.readFileSync throws on this file.
ErrorMessage(file) == IF file.kind = "absent" THEN ENOENT ELSE EACCES

ConfigNotFound == Result(FALSE, "medusa-config.ts file not found", "", <<>>)

CatchReadErrorNoText(message) == Result(FALSE, "Error reading medusa-config.ts", "", <<>>)

\* The catch block of checkConfigFile.
CatchReadError(message) == Result(FALSE, "Error reading medusa-config.ts", "", message)

\* The if/else on configContent.includes(...).
ScanConfig(configContent) ==
    IF Includes(configContent, AUTH_GOOGLE_MODULE)
    THEN Result(TRUE, "Google Auth Module is configured in medusa-config.ts", "", <<>>)
    ELSE Result(FALSE, "Google Auth Module not found in medusa-config.ts", "", <<>>)

\* fs.readFileSync(configPath, "utf8") and what follows it, inside the try.
ReadAndScan(file) ==
    IF file.kind = "file" THEN ScanConfig(file.content)
    ELSE CatchReadError(ErrorMessage(file))

----------------------------------------------------------------------------
(* validate-google-auth.ts: main() *)

Line(role, text, count) == [role |-> role, text |-> text, count |-> count]
Text(kind) == [kind |-> kind, var |-> "", arg |-> <<>>]
Heading(kind) == Line("heading", Text(kind), 0)
ResultLine(r) == Line("result", r.message, 0)
ResultLines(rs) == [i \in 1..Len(rs) |-> ResultLine(rs[i])]

allResultsEnvOnly == envResults

\* const allResults = [...envResults, callbackResult, configResult]
allResults == envResults \o <<callbackResult, configResult>>

IsFailed(r) == ~r.success
IsPassed(r) == r.success

failedResultsInverted(results) == SelectSeq(results, IsPassed)

\* allResults.filter((result) => !result.success)
failedResults(results) == SelectSeq(results, IsFailed)

ReportLinesCallbackFirst ==
    <<Heading("Callback URL:"), ResultLine(callbackResult)>>
    \o <<Heading("Environment Variables:")>> \o ResultLines(envResults)
    \o <<Heading("Configuration:"), ResultLine(configResult)>>

\* The console.log calls that print the three groups.
ReportLines ==
    <<Heading("Environment Variables:")>> \o ResultLines(envResults)
    \o <<Heading("Callback URL:"), ResultLine(callbackResult)>>
    \o <<Heading("Configuration:"), ResultLine(configResult)>>

Start ==
    /\ pc = "start"
    /\ stdout' = Append(stdout, Heading("Validating Google Auth Integration..."))
    /\ pc' = "env"
    /\ UNCHANGED <<env, cfgFile, envResults, callbackResult, configResult,
                   cfgAtCheck, cfgAtRead, exitCode, returned>>
    /\ UNCHANGED setupVars

RunEnvironmentCheck ==
    /\ pc = "env"
    /\ envResults' = validateEnvironmentVariables(env)
    /\ pc' = "callback"
    /\ UNCHANGED <<env, cfgFile, callbackResult, configResult,
                   cfgAtCheck, cfgAtRead, stdout, exitCode, returned>>
    /\ UNCHANGED setupVars

RunCallbackCheck ==
    /\ pc = "callback"
    /\ callbackResult' = validateCallbackUrl(env)
    /\ pc' = "cfgExists"
    /\ UNCHANGED <<env, cfgFile, envResults, configResult,
                   cfgAtCheck, cfgAtRead, stdout, exitCode, returned>>
    /\ UNCHANGED setupVars

\* checkConfigFile up to and including the existsSync test.
ConfigExistsCheck ==
    /\ pc = "cfgExists"
    /\ cfgAtCheck' = cfgFile
    /\ IF cfgFile.kind = "absent"
       THEN configResult' = ConfigNotFound /\ pc' = "report"
       ELSE configResult' = configResult /\ pc' = "cfgRead"
    /\ UNCHANGED <<env, cfgFile, envResults, callbackResult,
                   cfgAtRead, stdout, exitCode, returned>>
    /\ UNCHANGED setupVars

\* checkConfigFile from readFileSync to its return.
ConfigRead ==
    /\ pc = "cfgRead"
    /\ cfgAtRead' = cfgFile
    /\ configResult' = ReadAndScan(cfgFile)
    /\ pc' = "report"
    /\ UNCHANGED <<env, cfgFile, envResults, callbackResult,
                   cfgAtCheck, stdout, exitCode, returned>>
    /\ UNCHANGED setupVars

Report ==
    /\ pc = "report"
    /\ stdout' = stdout \o ReportLines
    /\ pc' = "verdict"
    /\ UNCHANGED <<env, cfgFile, envResults, callbackResult, configResult,
                   cfgAtCheck, cfgAtRead, exitCode, returned>>
    /\ UNCHANGED setupVars

VerdictPass ==
    /\ pc = "verdict"
    /\ Len(failedResults(allResults)) = 0
    /\ stdout' = stdout \o <<Line("verdict", Text("All validations passed!"), 0),
                             Line("hint", Text("Next steps:"), 0)>>
    /\ exitCode' = 0
    /\ pc' = "exited"
    /\ UNCHANGED <<env, cfgFile, envResults, callbackResult, configResult,
                   cfgAtCheck, cfgAtRead, returned>>
    /\ UNCHANGED setupVars

VerdictFail ==
    /\ pc = "verdict"
    /\ Len(failedResults(allResults)) # 0
    /\ stdout' = stdout \o <<Line("verdict", Text("validation(s) failed"),
                                  Len(failedResults(allResults))),
                             Line("hint", Text("Common fixes:"), 0)>>
    /\ exitCode' = 1
    /\ pc' = "exited"
    /\ UNCHANGED <<env, cfgFile, envResults, callbackResult, configResult,
                   cfgAtCheck, cfgAtRead, returned>>
    /\ UNCHANGED setupVars

\* Another process removes medusa-config.ts while the tool runs.
ConfigVanishes ==
    /\ pc # "exited"
    /\ cfgFile.kind # "absent"
    /\ cfgFile' = AbsentFile
    /\ UNCHANGED <<env, pc, envResults, callbackResult, configResult,
                   cfgAtCheck, cfgAtRead, stdout, exitCode, returned>>
    /\ UNCHANGED setupVars

\* One more call of validateEnvironmentVariables() in the same process.
CallValidateEnvironmentVariables ==
    /\ Len(returned) < MaxCalls
    /\ returned' = Append(returned, validateEnvironmentVariables(env))
    /\ UNCHANGED <<env, cfgFile, pc, envResults, callbackResult, configResult,
                   cfgAtCheck, cfgAtRead, stdout, exitCode>>
    /\ UNCHANGED setupVars

\* One more call of validateCallbackUrl() in the same process.
CallValidateCallbackUrl ==
    /\ Len(returned) < MaxCalls
    /\ returned' = Append(returned, validateCallbackUrl(env))
    /\ UNCHANGED <<env, cfgFile, pc, envResults, callbackResult, configResult,
                   cfgAtCheck, cfgAtRead, stdout, exitCode>>
    /\ UNCHANGED setupVars

----------------------------------------------------------------------------
(* setup-google-auth.ts *)

Instances == {1, 2}

NoEnvFile == [exists |-> FALSE, content |-> <<>>]
EnvFileWith(bytes) == [exists |-> TRUE, content |-> bytes]

\* A process of the setup tool before main() is called.
NewInstance == [pc |-> "start", templateContent |-> <<>>, offset |-> 0,
                exit |-> -1, log |-> <<>>]
Parked == [NewInstance EXCEPT !.pc = "parked"]

EnvExistsBranchNoReturn(st) ==
    [st EXCEPT !.pc = "checkTmpl", !.log = Append(@, ".env file already exists")]

\* The body of if (existsSync(envPath)): two messages and return.
EnvExistsBranch(st) ==
    [st EXCEPT !.pc = "returned", !.log = Append(@, ".env file already exists")]

\* The body of if (!existsSync(templatePath)): one message and return.
TemplateMissingBranch(st) ==
    [st EXCEPT !.pc = "returned", !.log = Append(@, ".env.template file not found")]

CatchCopyErrorRethrow(st) ==
    [st EXCEPT !.pc = "crashed", !.exit = 1]

\* The catch block of createEnvFile: console.error and fall off the end.
CatchCopyError(st) ==
    [st EXCEPT !.pc = "returned", !.log = Append(@, "Error creating .env file")]

WriteAppend(content, off, bytes) == content \o bytes

\* write(2) of bytes at file offset off; a gap before off reads as NUL bytes.
WriteAt(content, off, bytes) ==
    [k \in 1..(IF Len(content) > off + Len(bytes) THEN Len(content) ELSE off + Len(bytes)) |->
        IF k > off /\ k <= off + Len(bytes) THEN bytes[k - off]
        ELSE IF k <= Len(content) THEN content[k]
        ELSE "NUL"]

\* main() up to the call of createEnvFile().
MainStart(i) ==
    /\ inst[i].pc = "start"
    /\ inst' = [inst EXCEPT ![i].pc = "checkEnv",
                            ![i].log = Append(@, "Google Auth Setup Utility")]
    /\ UNCHANGED <<envFile, tmplFile, disk, runs, envAtStart, tmplAtStart, prevExit>>
    /\ UNCHANGED valVars

CheckEnv(i) ==
    /\ inst[i].pc = "checkEnv"
    /\ inst' = [inst EXCEPT ![i] = IF envFile.exists THEN EnvExistsBranch(@)
                                   ELSE [@ EXCEPT !.pc = "checkTmpl"]]
    /\ UNCHANGED <<envFile, tmplFile, disk, runs, envAtStart, tmplAtStart, prevExit>>
    /\ UNCHANGED valVars

CheckTemplate(i) ==
    /\ inst[i].pc = "checkTmpl"
    /\ inst' = [inst EXCEPT ![i] = IF tmplFile.kind = "absent" THEN TemplateMissingBranch(@)
                                   ELSE [@ EXCEPT !.pc = "read"]]
    /\ UNCHANGED <<envFile, tmplFile, disk, runs, envAtStart, tmplAtStart, prevExit>>
    /\ UNCHANGED valVars

\* readFileSync(templatePath, "utf8"): returns the content or throws.
ReadTemplate(i) ==
    /\ inst[i].pc = "read"
    /\ inst' = [inst EXCEPT ![i] = IF tmplFile.kind = "file"
                                   THEN [@ EXCEPT !.pc = "open",
                                                  !.templateContent = tmplFile.content]
                                   ELSE CatchCopyError(@)]
    /\ UNCHANGED <<envFile, tmplFile, disk, runs, envAtStart, tmplAtStart, prevExit>>
    /\ UNCHANGED valVars

\* writeFileSync opens .env with flag "w": created or truncated, or it throws.
OpenEnv(i) ==
    /\ inst[i].pc = "open"
    /\ IF disk = "readonly"
       THEN /\ inst' = [inst EXCEPT ![i] = CatchCopyError(@)]
            /\ envFile' = envFile
       ELSE /\ inst' = [inst EXCEPT ![i].pc = "write", ![i].offset = 0]
            /\ envFile' = EnvFileWith(<<>>)
    /\ UNCHANGED <<tmplFile, disk, runs, envAtStart, tmplAtStart, prevExit>>
    /\ UNCHANGED valVars

\* writeFileSync writes the next n bytes of templateContent.
WriteChunk(i) ==
    /\ inst[i].pc = "write"
    /\ inst[i].offset < Len(inst[i].templateContent)
    /\ \E n \in 1..(Len(inst[i].templateContent) - inst[i].offset) :
          /\ envFile' = EnvFileWith(WriteAt(envFile.content, inst[i].offset,
                            SubSeq(inst[i].templateContent, inst[i].offset + 1,
                                   inst[i].offset + n)))
          /\ inst' = [inst EXCEPT ![i].offset = @ + n]
    /\ UNCHANGED <<tmplFile, disk, runs, envAtStart, tmplAtStart, prevExit>>
    /\ UNCHANGED valVars

\* A write throws (no space left): what was written so far stays in .env.
WriteFails(i) ==
    /\ inst[i].pc = "write"
    /\ inst[i].offset < Len(inst[i].templateContent)
    /\ disk = "filling"
    /\ inst' = [inst EXCEPT ![i] = CatchCopyError(@)]
    /\ UNCHANGED <<envFile, tmplFile, disk, runs, envAtStart, tmplAtStart, prevExit>>
    /\ UNCHANGED valVars

\* writeFileSync returns; the success messages are printed.
CloseEnv(i) ==
    /\ inst[i].pc = "write"
    /\ inst[i].offset = Len(inst[i].templateContent)
    /\ inst' = [inst EXCEPT ![i].pc = "returned",
                            ![i].log = Append(@, "Created .env file from template")]
    /\ UNCHANGED <<envFile, tmplFile, disk, runs, envAtStart, tmplAtStart, prevExit>>
    /\ UNCHANGED valVars

\* main() after createEnvFile() returned: the last message, then the process ends.
MainFinish(i) ==
    /\ inst[i].pc = "returned"
    /\ inst' = [inst EXCEPT ![i].pc = "exited", ![i].exit = 0,
                            ![i].log = Append(@, "Run validate-google-auth.ts")]
    /\ UNCHANGED <<envFile, tmplFile, disk, runs, envAtStart, tmplAtStart, prevExit>>
    /\ UNCHANGED valVars

FileBytes == {"A", "B"}
FileContents == SeqsUpTo(FileBytes, MaxFileLen)
TemplateStates ==
    {AbsentFile, UnreadableFile} \cup {RegularFile(c) : c \in FileContents}
EnvFileStates == {NoEnvFile} \cup {EnvFileWith(c) : c \in FileContents}
DiskStates == {"ok", "readonly", "filling"}

\* The operator starts the setup tool again after it exited.
RunAgain ==
    /\ inst[1].pc = "exited"
    /\ runs < MaxRuns
    /\ runs' = runs + 1
    /\ inst' = [inst EXCEPT ![1] = NewInstance]
    /\ envAtStart' = envFile
    /\ tmplAtStart' = tmplFile
    /\ prevExit' = [valid |-> TRUE, env |-> envFile, log |-> inst[1].log]
    /\ UNCHANGED <<envFile, tmplFile, disk>>
    /\ UNCHANGED valVars

\* The operator edits, replaces or removes .env.template between two runs.
OperatorChangesTemplate ==
    /\ inst[1].pc = "exited"
    /\ runs < MaxRuns
    /\ \E t \in TemplateStates \ {tmplFile} : tmplFile' = t
    /\ UNCHANGED <<envFile, disk, inst, runs, envAtStart, tmplAtStart, prevExit>>
    /\ UNCHANGED valVars

----------------------------------------------------------------------------
(* Inputs *)

IdFragments == { <<"A","b","c">>, PLACEHOLDER_YOUR, PLACEHOLDER_HERE }
IdExamples ==
    { <<"Y","O","U","R","_">>, <<"_","H","E","R","E">>,
      PLACEHOLDER_CLIENT_ID, PLACEHOLDER_CLIENT_SECRET }
IdInputs ==
    {Unset} \cup {SetTo(s) : s \in Strings(IdFragments, MaxIdParts) \cup IdExamples}

UrlFragments ==
    { <<"h","t","t","p",":","/","/","l","o","c","a","l","h","o","s","t">>,
      <<":","8","0","0","0">>,
      <<"/","a","u","t","h">>,
      <<"/","c","a","l","l","b","a","c","k">>,
      <<"/",".",".">>,
      <<"?">>,
      <<"x",":">> }
UrlWrongPath ==
    <<"h","t","t","p",":","/","/","l","o","c","a","l","h","o","s","t",":","8","0","0","0","/","w","r","o","n","g","/","p","a","t","h">>
UrlNotAUrl == <<"n","o","t","-","a","-","u","r","l">>
UrlExtraSegment ==
    <<"h","t","t","p",":","/","/","l","o","c","a","l","h","o","s","t",":","8","0","0","0","/","a","u","t","h","/","c","a","l","l","b","a","c","k","/","e","x","t","r","a">>
UrlGood ==
    <<"h","t","t","p",":","/","/","l","o","c","a","l","h","o","s","t",":","8","0","0","0","/","a","u","t","h","/","c","a","l","l","b","a","c","k">>
UrlPlaceholderHost ==
    <<"h","t","t","p",":","/","/","y","o","u","r","_","h","o","s","t","/","a","u","t","h","/","c","a","l","l","b","a","c","k">>
UrlExamples == {UrlWrongPath, UrlNotAUrl, UrlExtraSegment, UrlGood, UrlPlaceholderHost}
UrlInputs ==
    {Unset} \cup {SetTo(s) : s \in Strings(UrlFragments, MaxUrlParts) \cup UrlExamples}

CfgFragments ==
    { <<"@","m","e","d","u","s","a","j","s","/","m","e","d","u","s","a">>,
      <<"/","a","u","t","h","-","g","o","o","g","l","e">>,
      <<"m","o","d","u","l","e","s",":">> }
CfgInputs ==
    {AbsentFile, UnreadableFile}
    \cup {RegularFile(c) : c \in Strings(CfgFragments, MaxCfgParts)}

\* Inputs of a whole run of the validation tool.
RunIdInputs ==
    {Unset, SetTo(<<>>), SetTo(<<"A","b","c">>), SetTo(PLACEHOLDER_YOUR),
     SetTo(<<"A","b","c">> \o PLACEHOLDER_HERE)}
RunUrlInputs == {Unset, SetTo(<<>>)} \cup {SetTo(s) : s \in UrlExamples}

NoEnvironment == [v \in VarNames |-> Unset]

ValidationToolIdle ==
    /\ env = NoEnvironment
    /\ cfgFile = AbsentFile
    /\ pc = "parked"
    /\ envResults = <<>>
    /\ callbackResult = NoResult
    /\ configResult = NoResult
    /\ cfgAtCheck = NotYetSeen
    /\ cfgAtRead = NotYetSeen
    /\ stdout = <<>>
    /\ exitCode = -1
    /\ returned = <<>>

SetupToolIdle ==
    /\ envFile = NoEnvFile
    /\ tmplFile = AbsentFile
    /\ disk = "ok"
    /\ inst = [i \in Instances |-> Parked]
    /\ runs = 0
    /\ envAtStart = NoEnvFile
    /\ tmplAtStart = AbsentFile
    /\ prevExit = [valid |-> FALSE, env |-> NoEnvFile, log |-> <<>>]

----------------------------------------------------------------------------
(* Specifications *)

\* One run of the validation tool.
Init ==
    /\ env \in [VarNames -> RunIdInputs \cup RunUrlInputs]
    /\ env["GOOGLE_CLIENT_ID"] \in RunIdInputs
    /\ env["GOOGLE_CLIENT_SECRET"] \in RunIdInputs
    /\ env["GOOGLE_CALLBACK_URL"] \in RunUrlInputs
    /\ cfgFile \in CfgInputs
    /\ pc = "start"
    /\ envResults = <<>>
    /\ callbackResult = NoResult
    /\ configResult = NoResult
    /\ cfgAtCheck = NotYetSeen
    /\ cfgAtRead = NotYetSeen
    /\ stdout = <<>>
    /\ exitCode = -1
    /\ returned = <<>>
    /\ SetupToolIdle

Next ==
    \/ Start
    \/ RunEnvironmentCheck
    \/ RunCallbackCheck
    \/ ConfigExistsCheck
    \/ ConfigRead
    \/ Report
    \/ VerdictPass
    \/ VerdictFail
    \/ ConfigVanishes

Spec == Init /\ [][Next]_vars

\* validateEnvironmentVariables() on every environment.
InitEnv ==
    /\ env \in [VarNames -> IdInputs]
    /\ cfgFile = AbsentFile
    /\ pc = "parked"
    /\ envResults = <<>>
    /\ callbackResult = NoResult
    /\ configResult = NoResult
    /\ cfgAtCheck = NotYetSeen
    /\ cfgAtRead = NotYetSeen
    /\ stdout = <<>>
    /\ exitCode = -1
    /\ returned = <<>>
    /\ SetupToolIdle

NextEnv == CallValidateEnvironmentVariables

SpecEnv == InitEnv /\ [][NextEnv]_vars

\* validateCallbackUrl() on every callback URL.
InitUrl ==
    /\ \E u \in UrlInputs : env = [NoEnvironment EXCEPT !["GOOGLE_CALLBACK_URL"] = u]
    /\ cfgFile = AbsentFile
    /\ pc = "parked"
    /\ envResults = <<>>
    /\ callbackResult = NoResult
    /\ configResult = NoResult
    /\ cfgAtCheck = NotYetSeen
    /\ cfgAtRead = NotYetSeen
    /\ stdout = <<>>
    /\ exitCode = -1
    /\ returned = <<>>
    /\ SetupToolIdle

NextUrl == CallValidateCallbackUrl

SpecUrl == InitUrl /\ [][NextUrl]_vars

\* Successive runs of the setup tool, the operator acting between them.
InitSetup ==
    /\ ValidationToolIdle
    /\ envFile \in EnvFileStates
    /\ tmplFile \in TemplateStates
    /\ disk \in DiskStates
    /\ inst = [i \in Instances |-> IF i = 1 THEN NewInstance ELSE Parked]
    /\ runs = 1
    /\ envAtStart = envFile
    /\ tmplAtStart = tmplFile
    /\ prevExit = [valid |-> FALSE, env |-> NoEnvFile, log |-> <<>>]

NextSetup ==
    \/ MainStart(1)
    \/ CheckEnv(1)
    \/ CheckTemplate(1)
    \/ ReadTemplate(1)
    \/ OpenEnv(1)
    \/ WriteChunk(1)
    \/ WriteFails(1)
    \/ CloseEnv(1)
    \/ MainFinish(1)
    \/ RunAgain
    \/ OperatorChangesTemplate

SpecSetup == InitSetup /\ [][NextSetup]_vars

\* Two setup tools started together with .env absent and the template present.
InitRace ==
    /\ ValidationToolIdle
    /\ envFile = NoEnvFile
    /\ tmplFile \in TemplateStates \ {AbsentFile}
    /\ disk \in DiskStates
    /\ inst = [i \in Instances |-> NewInstance]
    /\ runs = 1
    /\ envAtStart = envFile
    /\ tmplAtStart = tmplFile
    /\ prevExit = [valid |-> FALSE, env |-> NoEnvFile, log |-> <<>>]

NextRace ==
    \E i \in Instances :
        \/ MainStart(i)
        \/ CheckEnv(i)
        \/ CheckTemplate(i)
        \/ ReadTemplate(i)
        \/ OpenEnv(i)
        \/ WriteChunk(i)
        \/ WriteFails(i)
        \/ CloseEnv(i)
        \/ MainFinish(i)

SpecRace == InitRace /\ [][NextRace]_vars

----------------------------------------------------------------------------
(* Properties of the validation tool *)

FiveResults ==
    <<envResults[1], envResults[2], envResults[3], callbackResult, configResult>>
NumFailed == Cardinality({k \in 1..5 : ~FiveResults[k].success})
Printed(line) == \E k \in 1..Len(stdout) : stdout[k] = line
FailedCountLine(n) == Line("verdict", Text("validation(s) failed"), n)
IsResultLine(line) == line.role = "result"
IsVerdictLine(line) == line.role = "verdict"
Reported == pc \in {"verdict", "exited"}
ChecksDone == pc \in {"report", "verdict", "exited"}

\* C1: the validation tool has an exit code exactly when it has exited; it
\* exits with code 0 exactly when all five results are successes and with code 1 otherwise, and
\* the failure count it prints is the number of failed results among the five.
C1_ExitCodeIsConjunction ==
    /\ (pc = "exited") = (exitCode # -1)
    /\ pc = "exited" =>
        /\ Len(envResults) = 3
        /\ exitCode \in {0, 1}
        /\ (exitCode = 0) = (\A k \in 1..5 : FiveResults[k].success)
        /\ exitCode = 1 => SelectSeq(stdout, IsVerdictLine) = <<FailedCountLine(NumFailed)>>
        /\ exitCode = 0 => ~\E n \in 0..5 : Printed(FailedCountLine(n))

C1_Witness ==
    /\ pc = "exited"
    /\ exitCode = 1
    /\ NumFailed = 3
    /\ Printed(FailedCountLine(3))
    /\ envResults[1].success
    /\ ~callbackResult.success

\* C3: the three checks run in the order environment variables, callback URL,
\* config file, whatever the earlier ones returned; there are always five
\* results, the first three for GOOGLE_CLIENT_ID, GOOGLE_CLIENT_SECRET and
\* GOOGLE_CALLBACK_URL in that order; they are printed in that order, and the
\* process exits only after they are printed.
C3_AllChecksRunInOrder ==
    /\ Len(envResults) \in {0, 3}
    /\ \A k \in 1..Len(envResults) : envResults[k].message.var = requiredVars[k]
    /\ callbackResult # NoResult => Len(envResults) = 3
    /\ configResult # NoResult => callbackResult # NoResult
    /\ cfgAtCheck # NotYetSeen => callbackResult # NoResult
    /\ ChecksDone =>
        /\ Len(envResults) = 3
        /\ callbackResult # NoResult
        /\ configResult # NoResult
    /\ Reported =>
        SelectSeq(stdout, IsResultLine) =
            [k \in 1..5 |-> Line("result", FiveResults[k].message, 0)]
    /\ ~Reported => SelectSeq(stdout, IsResultLine) = <<>> /\ exitCode = -1

C3_Witness ==
    /\ pc = "exited"
    /\ ~envResults[1].success
    /\ ~callbackResult.success
    /\ configResult.success
    /\ Len(SelectSeq(stdout, IsResultLine)) = 5

MissingVars == {v \in VarNames : ~env[v].defined \/ env[v].value = <<>>}
LooksFilledIn(v) ==
    /\ v \notin MissingVars
    /\ ~Includes(env[v].value, PLACEHOLDER_YOUR)
    /\ ~Includes(env[v].value, PLACEHOLDER_HERE)
UrlIsValid ==
    /\ "GOOGLE_CALLBACK_URL" \notin MissingVars
    /\ parseURL(env["GOOGLE_CALLBACK_URL"].value).ok
    /\ Includes(parseURL(env["GOOGLE_CALLBACK_URL"].value).pathname, CALLBACK_PATH)
ConfigIsValid ==
    /\ cfgAtRead.kind = "file"
    /\ Includes(cfgAtRead.content, AUTH_GOOGLE_MODULE)
ExactlyOneFailureReported ==
    /\ exitCode = 1
    /\ NumFailed = 1
    /\ Printed(FailedCountLine(1))
NoFailureReported ==
    /\ exitCode = 0
    /\ NumFailed = 0
    /\ Printed(Line("verdict", Text("All validations passed!"), 0))

\* C10 as stated: whenever exactly one of the three variables is missing, the
\* callback URL is valid and the config file is valid, the tool exits 1 and
\* reports exactly one failure, "1 validation(s) failed"; whenever all three
\* variables are valid, the URL is valid and the config file contains the
\* module identifier, it reports zero failures and exits 0.
C10_AsStated ==
    pc = "exited" =>
        /\ (Cardinality(MissingVars) = 1 /\ UrlIsValid /\ ConfigIsValid)
              => ExactlyOneFailureReported
        /\ ((\A v \in VarNames : LooksFilledIn(v)) /\ UrlIsValid /\ ConfigIsValid)
              => NoFailureReported

\* C10 amended: whenever exactly one of the three variables is missing, the
\* other two hold values that are not placeholders, the callback URL is valid
\* and the config file is valid, the tool exits 1 and reports exactly one
\* failure, "1 validation(s) failed"; whenever all three variables are valid,
\* the URL is valid and the config file contains the module identifier, it
\* reports zero failures and exits 0.
C10_OneMissingOthersFilledIn ==
    pc = "exited" =>
        /\ ( /\ Cardinality(MissingVars) = 1
             /\ \A v \in VarNames \ MissingVars : LooksFilledIn(v)
             /\ UrlIsValid
             /\ ConfigIsValid ) => ExactlyOneFailureReported
        /\ ((\A v \in VarNames : LooksFilledIn(v)) /\ UrlIsValid /\ ConfigIsValid)
              => NoFailureReported

C10_Witness ==
    /\ pc = "exited"
    /\ MissingVars = {"GOOGLE_CLIENT_SECRET"}
    /\ LooksFilledIn("GOOGLE_CLIENT_ID")
    /\ LooksFilledIn("GOOGLE_CALLBACK_URL")
    /\ UrlIsValid
    /\ ConfigIsValid
    /\ ExactlyOneFailureReported

----------------------------------------------------------------------------
(* Properties of the check functions *)

HasPlaceholderText(text) ==
    \/ Includes(text, <<"y","o","u","r","_">>)
    \/ Includes(text, <<"_","h","e","r","e">>)
    \/ text = PLACEHOLDER_CLIENT_ID
    \/ text = PLACEHOLDER_CLIENT_SECRET

\* C2: validateEnvironmentVariables returns one result per required variable,
\* decided by that variable's value alone: unset or empty gives a failure
\* naming the variable; a non-empty value that contains 'your_' or '_here' or
\* equals one of the two placeholder literals gives a placeholder failure;
\* every other non-empty value gives success.
C2_EachVariableClassifiedAlone ==
    \A c \in 1..Len(returned) :
        /\ Len(returned[c]) = 3
        /\ \A k \in 1..3 :
            LET v == env[requiredVars[k]]
                r == returned[c][k]
            IN  /\ r.message.var = requiredVars[k]
                /\ (~v.defined \/ v.value = <<>>) =>
                      ~r.success /\ r.message.kind = "Missing required environment variable"
                /\ (v.defined /\ v.value # <<>> /\ HasPlaceholderText(v.value)) =>
                      ~r.success /\ r.message.kind = "contains placeholder value"
                /\ (v.defined /\ v.value # <<>> /\ ~HasPlaceholderText(v.value)) =>
                      r.success /\ r.message.kind = "is configured"

C2_Witness ==
    /\ Len(returned) >= 1
    /\ ~env["GOOGLE_CLIENT_ID"].defined
    /\ returned[1][1].message.kind = "Missing required environment variable"
    /\ Includes(env["GOOGLE_CLIENT_SECRET"].value, PLACEHOLDER_HERE)
    /\ ~Includes(env["GOOGLE_CLIENT_SECRET"].value, PLACEHOLDER_YOUR)
    /\ returned[1][2].message.kind = "contains placeholder value"
    /\ env["GOOGLE_CALLBACK_URL"].value = <<"Y","O","U","R","_">>
    /\ returned[1][3].success

CallbackValue == env["GOOGLE_CALLBACK_URL"]

C9_AcceptedPathEndsWithCallback ==
    \A c \in 1..Len(returned) :
        returned[c].success =>
            EndsWith(parseURL(CallbackValue.value).pathname, CALLBACK_PATH)

----------------------------------------------------------------------------
(* Properties of the setup tool *)

Logged(i, text) == \E k \in 1..Len(inst[i].log) : inst[i].log[k] = text
Finished(i) == inst[i].pc \in {"returned", "exited"}
LoggedBefore(text) == \E k \in 1..Len(prevExit.log) : prevExit.log[k] = text

\* What every run does when it starts with .env present, and what a second
\* run does after a first one.
NoOpWhenEnvExists ==
    /\ envAtStart.exists => envFile = envAtStart
    /\ (envAtStart.exists /\ Finished(1)) =>
          /\ Logged(1, ".env file already exists")
          /\ ~Logged(1, "Created .env file from template")
    /\ (prevExit.valid /\ prevExit.env.exists) => envFile = prevExit.env

C7_NeverCrashesExitsZero ==
    /\ inst[1].pc # "crashed"
    /\ inst[1].exit \in {-1, 0}
    /\ (inst[1].pc = "exited") = (inst[1].exit = 0)
    /\ (Finished(1) /\ ~envAtStart.exists /\ tmplAtStart.kind = "absent") =>
          /\ Logged(1, ".env.template file not found")
          /\ ~envFile.exists
    /\ (Finished(1) /\ ~envAtStart.exists /\ tmplAtStart.kind = "unreadable") =>
          /\ Logged(1, "Error creating .env file")
          /\ ~envFile.exists
    /\ (Finished(1) /\ ~envAtStart.exists /\ tmplAtStart.kind = "file" /\ disk = "readonly") =>
          /\ Logged(1, "Error creating .env file")
          /\ ~envFile.exists
    /\ Finished(1) =>
          Cardinality({t \in {".env file already exists", ".env.template file not found",
                              "Created .env file from template", "Error creating .env file"} :
                          Logged(1, t)}) = 1

C7_Witness ==
    /\ inst[1].pc = "exited"
    /\ inst[1].exit = 0
    /\ Logged(1, "Error creating .env file")
    /\ disk = "filling"
    /\ envFile.exists
    /\ envFile.content # tmplAtStart.content

BothExited == \A i \in Instances : inst[i].pc = "exited"

====
